---- MODULE Spec2Model ----
(***************************************************************************)
(* A model of the lexer (src/src/lexer) and of the recursive-descent       *)
(* parser (src/src/parser/parser.py) of the C-like syntax checker.         *)
(*                                                                         *)
(* A source text is a sequence of one-character strings; a Python offset k *)
(* is the TLA+ index k+1.  A lexeme is a sequence of characters too.       *)
(***************************************************************************)
EXTENDS Integers, Sequences, FiniteSets, TLC

VARIABLES
    code,       \* tokenize(code): the source text
    lexPos,     \* the offset re.finditer searches from next
    lexOut,     \* the local list `tokens` of tokenize
    lexPc,      \* "scan" while the for loop runs, "done" after `return tokens`
    lexResult,  \* how tokenize ended: "none" (running) or "tokens" (returned)
    toks,       \* Parser.tokens
    pos,        \* Parser.pos
    stack,      \* the call stack of the grammar routines, innermost last
    outcome,    \* "idle", "running", "ACCEPT" (parse_program returned), "REJECT"
    diags,      \* the number of ParserError raised so far
    verdict,    \* what main printed: "none", "correct", "error"
    probe       \* the last result of a peek/advance made by the primitives' harness

lexVars == <<code, lexPos, lexOut, lexPc, lexResult>>
parVars == <<toks, pos, stack, outcome, diags, verdict>>
vars == <<code, lexPos, lexOut, lexPc, lexResult, toks, pos, stack, outcome, diags, verdict, probe>>

-----------------------------------------------------------------------------
(* Bounds of the model *)

MaxSrcLen == 4

\* The characters the source texts are drawn from: two letters (the keyword
\* "if" and identifiers), a digit, the dot, the comment and operator
\* characters, the quote, a newline, a blank and a character no alternative of
\* the token pattern matches.
SrcChars == {"i", "f", "1", ".", "/", "*", "'", "\n", " ", "@"}

RECURSIVE SeqsOfLen(_, _)
SeqsOfLen(S, n) ==
    IF n = 0 THEN {<<>>}
    ELSE {Append(s, x) : s \in SeqsOfLen(S, n - 1), x \in S}

SeqsUpTo(S, n) == UNION {SeqsOfLen(S, k) : k \in 0..n}

-----------------------------------------------------------------------------
(* Character classes of Python's re *)

Digits == {"0", "1", "2", "3", "4", "5", "6", "7", "8", "9"}

Letters ==
    {"a", "b", "c", "d", "e", "f", "g", "h", "i", "j", "k", "l", "m",
     "n", "o", "p", "q", "r", "s", "t", "u", "v", "w", "x", "y", "z",
     "A", "B", "C", "D", "E", "F", "G", "H", "I", "J", "K", "L", "M",
     "N", "O", "P", "Q", "R", "S", "T", "U", "V", "W", "X", "Y", "Z", "_"}

\* \s and str.isspace on the characters a source can hold here
Spaces == {" ", "\t", "\n", "\r", "\f"}

\* the character at Python offset k of s
Ch(s, k) == s[k + 1]

\* s[p:p+len(w)] == w
StartsWith(s, p, w) ==
    /\ p + Len(w) <= Len(s)
    /\ \A i \in 1..Len(w) : s[p + i] = w[i]

\* the end of the longest run of characters of S starting at offset p (a greedy X*)
RECURSIVE RunEnd(_, _, _)
RunEnd(s, p, S) ==
    IF p < Len(s) /\ Ch(s, p) \in S THEN RunEnd(s, p + 1, S) ELSE p

\* the end of the longest run of characters other than c starting at offset p
RECURSIVE RunEndNot(_, _, _)
RunEndNot(s, p, c) ==
    IF p < Len(s) /\ Ch(s, p) # c THEN RunEndNot(s, p + 1, c) ELSE p

\* the least offset q >= p where w starts, or -1 (a lazy .*? followed by w)
RECURSIVE FindFrom(_, _, _)
FindFrom(s, p, w) ==
    IF p + Len(w) > Len(s) THEN -1
    ELSE IF StartsWith(s, p, w) THEN p
    ELSE FindFrom(s, p + 1, w)

-----------------------------------------------------------------------------
(* Scanner: the category predicates *)

keywords ==
    { <<"i","n","t">>, <<"f","l","o","a","t">>, <<"c","h","a","r">>,
      <<"d","o","u","b","l","e">>, <<"i","f">>, <<"e","l","s","e">>,
      <<"f","o","r">>, <<"w","h","i","l","e">>, <<"d","o">>,
      <<"r","e","t","u","r","n">>, <<"v","o","i","d">>,
      <<"s","w","i","t","c","h">>, <<"c","a","s","e">>,
      <<"b","r","e","a","k">>, <<"c","o","n","t","i","n","u","e">>,
      <<"s","t","r","u","c","t">>, <<"t","y","p","e","d","e","f">>,
      <<"s","t","a","t","i","c">>, <<"c","o","n","s","t">>,
      <<"u","n","s","i","g","n","e","d">>, <<"s","i","g","n","e","d">> }

operators ==
    { <<"+">>, <<"-">>, <<"*">>, <<"/">>, <<"%">>, <<"=">>, <<"=","=">>,
      <<"!","=">>, <<">">>, <<"<">>, <<">","=">>, <<"<","=">>, <<"&","&">>,
      <<"|","|">>, <<"+","+">>, <<"-","-">>, <<"&">>, <<"|">>, <<"!">>, <<"^">> }

special_characters ==
    { <<"(">>, <<")">>, <<"{">>, <<"}">>, <<"[">>, <<"]">>, <<";">>, <<",">>,
      <<".">>, <<"#">> }

is_keyword(word) == word \in keywords

is_operator(char) == char \in operators

is_special_character(char) == char \in special_characters

\* Python's $ : the end of the string, or just before a newline that ends it
AtDollar(w, p) == p = Len(w) \/ (p = Len(w) - 1 /\ Ch(w, p) = "\n")

\* re.match(r'^[A-Za-z_][A-Za-z0-9_]*$', word)
is_identifier(word) ==
    /\ Len(word) >= 1
    /\ word[1] \in Letters
    /\ AtDollar(word, RunEnd(word, 1, Letters \cup Digits))

\* re.match(r'^\d+(\.\d+)?$', word)
is_numeric_constant(word) ==
    LET d == RunEnd(word, 0, Digits)
        e == IF d < Len(word) /\ Ch(word, d) = "." THEN RunEnd(word, d + 1, Digits) ELSE d
    IN  /\ d >= 1
        /\ \/ AtDollar(word, d)
           \/ e > d + 1 /\ AtDollar(word, e)

\* re.match(r"^'.'$", word): without DOTALL the dot matches no newline
is_character_constant(word) ==
    /\ Len(word) >= 3
    /\ word[1] = "'"
    /\ word[2] # "\n"
    /\ word[3] = "'"
    /\ AtDollar(word, 3)

\* text.startswith("//") or (text.startswith("/*") and text.endswith("*/"))
is_comment(text) ==
    \/ StartsWith(text, 0, <<"/", "/">>)
    \/ /\ StartsWith(text, 0, <<"/", "*">>)
       /\ Len(text) >= 2
       /\ StartsWith(text, Len(text) - 2, <<"*", "/">>)

\* char.isspace()
is_whitespace(char) == Len(char) >= 1 /\ \A i \in 1..Len(char) : char[i] \in Spaces

is_newline(char) == char = <<"\n">>

-----------------------------------------------------------------------------
(* Tokenizer.token_pattern: the end offset of each alternative's match at    *)
(* offset p, or -1 when the alternative does not match there                 *)

\* (//[^\n]*)
LineCommentEnd(s, p) ==
    IF StartsWith(s, p, <<"/", "/">>) THEN RunEndNot(s, p + 2, "\n") ELSE -1

\* (/\*.*?\*/) under DOTALL
BlockCommentEnd(s, p) ==
    IF StartsWith(s, p, <<"/", "*">>)
    THEN LET q == FindFrom(s, p + 2, <<"*", "/">>) IN IF q = -1 THEN -1 ELSE q + 2
    ELSE -1

\* ('[^']')
CharConstEnd(s, p) ==
    IF p + 3 <= Len(s) /\ Ch(s, p) = "'" /\ Ch(s, p + 1) # "'" /\ Ch(s, p + 2) = "'"
    THEN p + 3 ELSE -1

\* (\d+\.\d+|\d+)
NumberEnd(s, p) ==
    LET d == RunEnd(s, p, Digits)
        e == IF d < Len(s) /\ Ch(s, d) = "." THEN RunEnd(s, d + 1, Digits) ELSE d
    IN  IF d = p THEN -1 ELSE IF e > d + 1 THEN e ELSE d

\* ([A-Za-z_][A-Za-z0-9_]*)
WordEnd(s, p) ==
    IF p < Len(s) /\ Ch(s, p) \in Letters
    THEN RunEnd(s, p + 1, Letters \cup Digits) ELSE -1

\* (==|!=|>=|<=|\+\+|--|&&|\|\|)
MultiOpEnd(s, p) ==
    IF \E w \in { <<"=","=">>, <<"!","=">>, <<">","=">>, <<"<","=">>,
                  <<"+","+">>, <<"-","-">>, <<"&","&">>, <<"|","|">> } :
           StartsWith(s, p, w)
    THEN p + 2 ELSE -1

\* ([+\-*/%=><!&|^])
SingleOpEnd(s, p) ==
    IF p < Len(s) /\ Ch(s, p) \in {"+", "-", "*", "/", "%", "=", ">", "<", "!", "&", "|", "^"}
    THEN p + 1 ELSE -1

\* ([\(\){}\[\];,\.#])
SpecialEnd(s, p) ==
    IF p < Len(s) /\ Ch(s, p) \in {"(", ")", "{", "}", "[", "]", ";", ",", ".", "#"}
    THEN p + 1 ELSE -1

\* (\s+)
SpaceEnd(s, p) ==
    IF p < Len(s) /\ Ch(s, p) \in Spaces THEN RunEnd(s, p, Spaces) ELSE -1

\* the alternation: the first alternative, in the declared order, that matches at p
MatchEnd(s, p) ==
    IF LineCommentEnd(s, p) # -1 THEN LineCommentEnd(s, p)
    ELSE IF BlockCommentEnd(s, p) # -1 THEN BlockCommentEnd(s, p)
    ELSE IF CharConstEnd(s, p) # -1 THEN CharConstEnd(s, p)
    ELSE IF NumberEnd(s, p) # -1 THEN NumberEnd(s, p)
    ELSE IF WordEnd(s, p) # -1 THEN WordEnd(s, p)
    ELSE IF MultiOpEnd(s, p) # -1 THEN MultiOpEnd(s, p)
    ELSE IF SingleOpEnd(s, p) # -1 THEN SingleOpEnd(s, p)
    ELSE IF SpecialEnd(s, p) # -1 THEN SpecialEnd(s, p)
    ELSE SpaceEnd(s, p)

\* re.finditer's search: the least offset q >= p at which the pattern matches,
\* or -1; the offsets in between are passed over
RECURSIVE SearchFrom(_, _)
SearchFrom(s, p) ==
    IF p >= Len(s) THEN -1
    ELSE IF MatchEnd(s, p) # -1 THEN p
    ELSE SearchFrom(s, p + 1)

-----------------------------------------------------------------------------
(* Tokenizer.tokenize *)

\* code.count('\n', 0, start)
RECURSIVE CountNl(_, _)
CountNl(s, start) ==
    IF start = 0 THEN 0
    ELSE CountNl(s, start - 1) + (IF Ch(s, start - 1) = "\n" THEN 1 ELSE 0)

\* code.rfind('\n', 0, start)
RECURSIVE RFindNl(_, _)
RFindNl(s, start) ==
    IF start = 0 THEN -1
    ELSE IF Ch(s, start - 1) = "\n" THEN start - 1
    ELSE RFindNl(s, start - 1)

\* the chain with the identifier test moved ahead of the keyword test
ClassifyIdentifierFirst(lexeme) ==
    IF is_comment(lexeme) THEN "COMMENT"
    ELSE IF is_identifier(lexeme) THEN "IDENTIFIER"
    ELSE IF is_keyword(lexeme) THEN "KEYWORD"
    ELSE IF is_operator(lexeme) THEN "OPERATOR"
    ELSE IF is_special_character(lexeme) THEN "SPECIAL_CHARACTER"
    ELSE IF is_character_constant(lexeme) THEN "CHARACTER_CONSTANT"
    ELSE IF is_numeric_constant(lexeme) THEN "NUMERIC_CONSTANT"
    ELSE IF is_newline(lexeme) THEN "NEWLINE"
    ELSE IF is_whitespace(lexeme) THEN "WHITESPACE"
    ELSE "IDENTIFIER"

\* the if/elif chain of tokenize
Classify(lexeme) ==
    IF is_comment(lexeme) THEN "COMMENT"
    ELSE IF is_keyword(lexeme) THEN "KEYWORD"
    ELSE IF is_operator(lexeme) THEN "OPERATOR"
    ELSE IF is_special_character(lexeme) THEN "SPECIAL_CHARACTER"
    ELSE IF is_character_constant(lexeme) THEN "CHARACTER_CONSTANT"
    ELSE IF is_numeric_constant(lexeme) THEN "NUMERIC_CONSTANT"
    ELSE IF is_identifier(lexeme) THEN "IDENTIFIER"
    ELSE IF is_newline(lexeme) THEN "NEWLINE"
    ELSE IF is_whitespace(lexeme) THEN "WHITESPACE"
    ELSE "IDENTIFIER"

\* line = code.count('\n', 0, start) + 1
LineOf(s, start) == CountNl(s, start) + 1

\* the column counted from the newline itself on every line: 0-based after a newline
ColumnOfZeroBased(s, start) ==
    LET last_nl == RFindNl(s, start)
    IN  IF last_nl # -1 THEN start - last_nl - 1 ELSE start + 1

\* column = (start - last_nl) if last_nl != -1 else (start + 1)
ColumnOf(s, start) ==
    LET last_nl == RFindNl(s, start)
    IN  IF last_nl # -1 THEN start - last_nl ELSE start + 1

\* Token(lexeme, token_type, line=line, column=column); start is match.start(),
\* kept beside the token to state where its span lies
MakeToken(s, start, end) ==
    LET lexeme == SubSeq(s, start + 1, end)
    IN  [value |-> lexeme, type |-> Classify(lexeme),
         line |-> LineOf(s, start), column |-> ColumnOf(s, start), start |-> start]

LexIdle ==
    /\ code = <<>> /\ lexPos = 0 /\ lexOut = <<>> /\ lexPc = "idle" /\ lexResult = "none"

ParIdle ==
    /\ toks = <<>> /\ pos = 0 /\ stack = <<>> /\ outcome = "idle" /\ diags = 0
    /\ verdict = "none"

InitLex ==
    /\ code \in SeqsUpTo(SrcChars, MaxSrcLen)
    /\ lexPos = 0
    /\ lexOut = <<>>
    /\ lexPc = "scan"
    /\ lexResult = "none"
    /\ ParIdle
    /\ probe = <<>>

\* one iteration of `for match in re.finditer(self.token_pattern, code)`
TokenizeMatch ==
    /\ lexPc = "scan"
    /\ SearchFrom(code, lexPos) # -1
    /\ LET start == SearchFrom(code, lexPos)
           end == MatchEnd(code, start)
       IN  /\ lexOut' = Append(lexOut, MakeToken(code, start, end))
           /\ lexPos' = end
    /\ UNCHANGED <<code, lexPc, lexResult, parVars, probe>>

\* the iterator is exhausted: `return tokens`
TokenizeReturn ==
    /\ lexPc = "scan"
    /\ SearchFrom(code, lexPos) = -1
    /\ lexPc' = "done"
    /\ lexResult' = "tokens"
    /\ lexPos' = Len(code)
    /\ UNCHANGED <<code, lexOut, parVars, probe>>

NextLex == TokenizeMatch \/ TokenizeReturn

SpecLex == InitLex /\ [][NextLex]_vars

-----------------------------------------------------------------------------
(* Claims about the tokenizer, checked under SpecLex *)

RECURSIVE ConcatValues(_)
ConcatValues(ts) ==
    IF ts = <<>> THEN <<>> ELSE ts[1].value \o ConcatValues(Tail(ts))

\* the offsets of code that lie in the span of some token of lexOut
Covered == {k \in 0..(Len(code) - 1) :
               \E i \in 1..Len(lexOut) :
                   lexOut[i].start <= k /\ k < lexOut[i].start + Len(lexOut[i].value)}

\* C1: for every source text, the lexemes of tokenize's result, concatenated
\* in output order, are the source text (the spans leave no gap).
C1_LosslessRoundTrip ==
    lexPc = "done" => ConcatValues(lexOut) = code

\* C2: when the source holds a character that no alternative of the token
\* pattern matches, tokenize ends in a LexError; it never returns a token list
\* that passes over the character.
C2_UnmatchedSpanIsLexError ==
    (lexPc = "done" /\ Covered # 0..(Len(code) - 1)) => lexResult = "LexError"

\* whether a lexeme satisfies the Scanner predicate of a category
Satisfies(cat, lexeme) ==
    CASE cat = "COMMENT" -> is_comment(lexeme)
      [] cat = "KEYWORD" -> is_keyword(lexeme)
      [] cat = "OPERATOR" -> is_operator(lexeme)
      [] cat = "SPECIAL_CHARACTER" -> is_special_character(lexeme)
      [] cat = "CHARACTER_CONSTANT" -> is_character_constant(lexeme)
      [] cat = "NUMERIC_CONSTANT" -> is_numeric_constant(lexeme)
      [] cat = "IDENTIFIER" -> is_identifier(lexeme)
      [] cat = "WHITESPACE" -> is_whitespace(lexeme)
      [] cat = "NEWLINE" -> is_newline(lexeme)

\* the first category of `order` whose predicate the lexeme satisfies, IDENTIFIER if none
FirstSatisfied(order, lexeme) ==
    LET hits == {i \in 1..Len(order) : Satisfies(order[i], lexeme)}
    IN  IF hits = {} THEN "IDENTIFIER"
        ELSE order[CHOOSE i \in hits : \A j \in hits : i <= j]

WhitespaceFirstOrder ==
    <<"COMMENT", "KEYWORD", "OPERATOR", "SPECIAL_CHARACTER", "CHARACTER_CONSTANT",
      "NUMERIC_CONSTANT", "IDENTIFIER", "WHITESPACE", "NEWLINE">>

NewlineFirstOrder ==
    <<"COMMENT", "KEYWORD", "OPERATOR", "SPECIAL_CHARACTER", "CHARACTER_CONSTANT",
      "NUMERIC_CONSTANT", "IDENTIFIER", "NEWLINE", "WHITESPACE">>

\* C5 as stated: every token has the category of the first predicate its
\* lexeme satisfies in the order COMMENT, KEYWORD, OPERATOR, SPECIAL_CHARACTER,
\* CHARACTER_CONSTANT, NUMERIC_CONSTANT, IDENTIFIER, WHITESPACE, NEWLINE, with
\* IDENTIFIER as the fallback.
C5_PriorityWhitespaceBeforeNewline ==
    \A i \in 1..Len(lexOut) :
        lexOut[i].type = FirstSatisfied(WhitespaceFirstOrder, lexOut[i].value)

\* C5 amended: the same with NEWLINE tested before WHITESPACE.
C5_PriorityNewlineBeforeWhitespace ==
    \A i \in 1..Len(lexOut) :
        lexOut[i].type = FirstSatisfied(NewlineFirstOrder, lexOut[i].value)

\* tokenize returned a keyword (which is_identifier accepts too) and a
\* one-newline lexeme (which is_whitespace accepts too), each with the category
\* of the earlier test
C5_Witness ==
    /\ lexPc = "done"
    /\ \E i \in 1..Len(lexOut) :
           lexOut[i].value = <<"i", "f">> /\ lexOut[i].type = "KEYWORD"
    /\ \E i \in 1..Len(lexOut) :
           lexOut[i].value = <<"\n">> /\ lexOut[i].type = "NEWLINE"

\* the offsets before k that hold a newline
NewlinesBefore(k) == {j \in 0..(k - 1) : Ch(code, j) = "\n"}

\* C6: a token that starts at offset k has line 1 + the number of newlines in
\* code[0..k), and column k - (the offset of the last newline before k) if
\* there is one, else k + 1; so line >= 1 and column >= 1.
C6_PositionLaw ==
    \A i \in 1..Len(lexOut) :
        LET t == lexOut[i]
            k == t.start
            N == NewlinesBefore(k)
        IN  /\ SubSeq(code, k + 1, k + Len(t.value)) = t.value
            /\ t.line = 1 + Cardinality(N)
            /\ t.column = IF N # {} THEN k - (CHOOSE j \in N : \A m \in N : m <= j)
                          ELSE k + 1
            /\ t.line >= 1
            /\ t.column >= 1

\* tokenize returned a token that lies on the second line, not at its start,
\* and one on the first line that is not at offset 0
C6_Witness ==
    /\ lexPc = "done"
    /\ \E i \in 1..Len(lexOut) : lexOut[i].line = 2 /\ lexOut[i].column = 2
    /\ \E i \in 1..Len(lexOut) : lexOut[i].line = 1 /\ lexOut[i].column = 2

-----------------------------------------------------------------------------
(* Parser: tokens and the cursor primitives.  A parser token is a record     *)
(* [value, type]; the cursor pos is a Python index, so tokens[pos] is        *)
(* toks[pos + 1].                                                            *)

\* Python's None, as a token no list holds
NoTok == [value |-> "", type |-> "NONE"]

\* an argument of expect left at its default None
Unset == "<unset>"

is_trivia(token) == token.type \in {"COMMENT", "WHITESPACE", "NEWLINE"}

\* self.tokens[idx] if idx < len(self.tokens) else None
TokAt(idx) == IF idx < Len(toks) THEN toks[idx + 1] ELSE NoTok

\* a _skip_trivia that steps over one trivia token at most
skip_trivia_once(p) ==
    IF p < Len(toks) /\ is_trivia(toks[p + 1]) THEN p + 1 ELSE p

\* the cursor after _skip_trivia run from p
RECURSIVE skip_trivia(_)
skip_trivia(p) ==
    IF p < Len(toks) /\ is_trivia(toks[p + 1]) THEN skip_trivia(p + 1) ELSE p

\* the walk of peek that steps over a token without stepping over the trivia after it
RECURSIVE PeekWalkNoSkip(_, _)
PeekWalkNoSkip(idx, remaining) ==
    IF idx < Len(toks) /\ remaining > 0
    THEN PeekWalkNoSkip(idx + 1, remaining - 1)
    ELSE idx

\* the while loop of peek: idx after `remaining` more non-trivia tokens
RECURSIVE PeekWalk(_, _)
PeekWalk(idx, remaining) ==
    IF idx < Len(toks) /\ remaining > 0
    THEN PeekWalk(skip_trivia(idx + 1), remaining - 1)
    ELSE idx

\* the index peek(n) returns the token of, with the cursor at p (len(tokens)
\* or more: None); peek leaves the cursor at skip_trivia(p)
PeekIdx(p, n) ==
    IF n = 0 THEN skip_trivia(p) ELSE PeekWalk(skip_trivia(p), n)

\* the token peek(n) returns with the cursor at p
peek(p, n) == TokAt(PeekIdx(p, n))

\* the cursor after advance() called with the cursor at p
advance(p) ==
    LET q == skip_trivia(p)
    IN  IF TokAt(q) # NoTok THEN q + 1 ELSE q

\* an expect that moves the cursor past the current position before it tests
\* the token there
expect_advances_before_test(p, type_, lexeme) ==
    LET q == skip_trivia(p)
        tok == TokAt(q)
    IN  IF tok = NoTok THEN [ok |-> FALSE, pos |-> q + 1]
        ELSE IF type_ # Unset /\ tok.type # type_ THEN [ok |-> FALSE, pos |-> q + 1]
        ELSE IF lexeme # Unset /\ tok.value # lexeme THEN [ok |-> FALSE, pos |-> q + 1]
        ELSE [ok |-> TRUE, pos |-> q + 1]

\* expect(type_, lexeme) called with the cursor at p: whether it returns
\* (ok) or raises ParserError, and the cursor it leaves
expect(p, type_, lexeme) ==
    LET q == skip_trivia(p)
        tok == TokAt(q)
    IN  IF tok = NoTok THEN [ok |-> FALSE, pos |-> q]
        ELSE IF type_ # Unset /\ tok.type # type_ THEN [ok |-> FALSE, pos |-> q]
        ELSE IF lexeme # Unset /\ tok.value # lexeme THEN [ok |-> FALSE, pos |-> q]
        ELSE [ok |-> TRUE, pos |-> q + 1]

\* tok is not None and tok.type == KEYWORD and tok.value in {"int", "float", "void"}
IsTypeKeyword(tok) ==
    tok # NoTok /\ tok.type = "KEYWORD" /\ tok.value \in {"int", "float", "void"}

-----------------------------------------------------------------------------
(* The call stack.  A frame is [r, pc, ent]: the routine, the point it       *)
(* resumes at when its callee returns, and the cursor at its call.  A step   *)
(* runs the innermost routine up to its next call, its return or its raise.  *)

Frame(r, p) == [r |-> r, pc |-> 0, ent |-> p]

Top == stack[Len(stack)]

\* what a step of a routine ends in
Raise(p) == [k |-> "raise", pos |-> p, callee |-> "", next |-> 0]
Return(p) == [k |-> "return", pos |-> p, callee |-> "", next |-> 0]
Call(callee, next, p) == [k |-> "call", pos |-> p, callee |-> callee, next |-> next]

\* expect, then the rest of the step when it returns
AfterExpect(e, rest) == IF e.ok THEN rest ELSE Raise(e.pos)

Running(r) == outcome = "running" /\ stack # <<>> /\ Top.r = r

\* A raise unwinds every frame (the parser has no except clause) and ends the
\* parse in ParserError; the return of the outermost routine, parse_program,
\* ends it normally.
Apply(res) ==
    /\ pos' = res.pos
    /\ CASE res.k = "raise" ->
              /\ stack' = <<>>
              /\ outcome' = "REJECT"
              /\ diags' = diags + 1
         [] res.k = "return" ->
              /\ stack' = SubSeq(stack, 1, Len(stack) - 1)
              /\ outcome' = IF Len(stack) = 1 THEN "ACCEPT" ELSE "running"
              /\ diags' = diags
         [] res.k = "call" ->
              /\ stack' = Append([stack EXCEPT ![Len(stack)].pc = res.next],
                                 Frame(res.callee, res.pos))
              /\ outcome' = "running"
              /\ diags' = diags
    /\ UNCHANGED <<toks, verdict, lexVars, probe>>

-----------------------------------------------------------------------------
(* The grammar routines: declarations and statements *)

\* a parse_program that accepts the empty program
parse_program_accepts_empty ==
    /\ Running("parse_program")
    /\ LET q == skip_trivia(pos)
           tok == TokAt(q)
       IN  Apply(CASE Top.pc = 0 ->
                        IF tok = NoTok THEN Return(q)
                        ELSE IF IsTypeKeyword(tok) THEN Call("parse_decl_list", 1, q)
                        ELSE Raise(q)
                   [] Top.pc = 1 ->
                        IF tok # NoTok THEN Raise(q) ELSE Return(q))

\* a parse_program that parses one declaration and returns
parse_program_one_decl ==
    /\ Running("parse_program")
    /\ LET q == skip_trivia(pos)
           tok == TokAt(q)
       IN  Apply(CASE Top.pc = 0 ->
                        IF tok = NoTok THEN Raise(q)
                        ELSE IF IsTypeKeyword(tok) THEN Call("parse_decl", 1, q)
                        ELSE Raise(q)
                   [] Top.pc = 1 -> Return(pos))

\* Program -> DeclList EOF
parse_program ==
    /\ Running("parse_program")
    /\ LET q == skip_trivia(pos)
           tok == TokAt(q)
       IN  Apply(CASE Top.pc = 0 ->
                        IF tok = NoTok THEN Raise(q)
                        ELSE IF IsTypeKeyword(tok) THEN Call("parse_decl_list", 1, q)
                        ELSE Raise(q)
                   [] Top.pc = 1 ->
                        \* self.expect_eof()
                        IF tok # NoTok THEN Raise(q) ELSE Return(q))

parse_decl_list ==
    /\ Running("parse_decl_list")
    /\ LET q == skip_trivia(pos)
           tok == TokAt(q)
       IN  Apply(CASE Top.pc = 0 ->
                        IF tok = NoTok THEN Return(q)
                        ELSE IF IsTypeKeyword(tok) THEN Call("parse_decl", 1, q)
                        ELSE Raise(q)
                   [] Top.pc = 1 -> Call("parse_decl_list", 2, pos)
                   [] Top.pc = 2 -> Return(pos))

\* Decl -> VarDecl | FunDecl
parse_decl ==
    /\ Running("parse_decl")
    /\ Apply(CASE Top.pc = 0 ->
                    LET q == skip_trivia(pos)
                    IN  IF IsTypeKeyword(TokAt(q)) THEN Call("parse_type_spec", 1, q)
                        ELSE Raise(q)
               [] Top.pc = 1 ->
                    LET e == expect(pos, "IDENTIFIER", Unset)
                        q == skip_trivia(e.pos)
                        next_token == TokAt(q)
                    IN  AfterExpect(e,
                          IF next_token # NoTok /\ next_token.value = "("
                          THEN AfterExpect(expect(q, Unset, "("),
                                           Call("parse_param_list", 2, q + 1))
                          ELSE Call("parse_var_decl_tail", 4, q))
               [] Top.pc = 2 ->
                    LET e == expect(pos, Unset, ")")
                    IN  AfterExpect(e, Call("parse_compound_stmt", 3, e.pos))
               [] Top.pc = 3 -> Return(pos)
               [] Top.pc = 4 ->
                    LET e == expect(pos, Unset, ";")
                    IN  AfterExpect(e, Return(e.pos)))

\* VarDecl -> TypeSpec ID VarDeclTail ';'
parse_var_decl ==
    /\ Running("parse_var_decl")
    /\ Apply(CASE Top.pc = 0 ->
                    LET q == skip_trivia(pos)
                    IN  IF IsTypeKeyword(TokAt(q)) THEN Call("parse_type_spec", 1, q)
                        ELSE Raise(q)
               [] Top.pc = 1 ->
                    LET e == expect(pos, "IDENTIFIER", Unset)
                    IN  AfterExpect(e, Call("parse_var_decl_tail", 2, e.pos))
               [] Top.pc = 2 ->
                    LET e == expect(pos, Unset, ";")
                    IN  AfterExpect(e, Return(e.pos)))

\* VarDeclTail -> (',' ID)*
parse_var_decl_tail ==
    /\ Running("parse_var_decl_tail")
    /\ Apply(CASE Top.pc = 0 ->
                    LET q == skip_trivia(pos)
                        tok == TokAt(q)
                        e1 == expect(q, Unset, ",")
                        e2 == expect(e1.pos, "IDENTIFIER", Unset)
                    IN  IF tok # NoTok /\ tok.value = ";" THEN Return(q)
                        ELSE AfterExpect(e1, AfterExpect(e2,
                                 Call("parse_var_decl_tail", 1, e2.pos)))
               [] Top.pc = 1 -> Return(pos))

\* ParamList -> (TypeSpec ID (',' TypeSpec ID)*)?
parse_param_list ==
    /\ Running("parse_param_list")
    /\ Apply(CASE Top.pc = 0 ->
                    LET q == skip_trivia(pos)
                        tok == TokAt(q)
                    IN  IF tok # NoTok /\ ((tok.type = "KEYWORD" /\ tok.value = "void")
                                            \/ tok.value = ")")
                        THEN IF tok.value = "void" THEN Return(advance(q)) ELSE Return(q)
                        ELSE IF tok # NoTok /\ tok.type = "KEYWORD"
                                /\ tok.value \in {"int", "void", "float"}
                        THEN Call("parse_type_spec", 1, q)
                        ELSE Raise(q)
               [] Top.pc = 1 ->
                    LET e == expect(pos, "IDENTIFIER", Unset)
                    IN  AfterExpect(e, Call("parse_param_list_tail", 2, e.pos))
               [] Top.pc = 2 -> Return(pos))

\* ParamListTail -> (',' TypeSpec ID)*
parse_param_list_tail ==
    /\ Running("parse_param_list_tail")
    /\ Apply(CASE Top.pc = 0 ->
                    LET q == skip_trivia(pos)
                        tok == TokAt(q)
                        e == expect(q, Unset, ",")
                    IN  IF tok # NoTok /\ tok.value = ")" THEN Return(q)
                        ELSE AfterExpect(e, Call("parse_type_spec", 1, e.pos))
               [] Top.pc = 1 ->
                    LET e == expect(pos, "IDENTIFIER", Unset)
                    IN  AfterExpect(e, Call("parse_param_list_tail", 2, e.pos))
               [] Top.pc = 2 -> Return(pos))

\* TypeSpec -> 'int' | 'float' | 'void'
parse_type_spec ==
    /\ Running("parse_type_spec")
    /\ LET q == skip_trivia(pos)
       IN  Apply(IF IsTypeKeyword(TokAt(q)) THEN Return(advance(q)) ELSE Raise(q))

\* CompoundStmt -> '{' LocalDeclList StmtList '}'
parse_compound_stmt ==
    /\ Running("parse_compound_stmt")
    /\ Apply(CASE Top.pc = 0 ->
                    LET q == skip_trivia(pos)
                        e == expect(q, Unset, "{")
                    IN  IF TokAt(q) = NoTok THEN Raise(q)
                        ELSE AfterExpect(e, Call("parse_local_decl_list", 1, e.pos))
               [] Top.pc = 1 -> Call("parse_stmt_list", 2, pos)
               [] Top.pc = 2 ->
                    LET e == expect(pos, Unset, "}")
                    IN  AfterExpect(e, Return(e.pos)))

\* a parse_local_decl_list that recurses on a type keyword without parsing the declaration
parse_local_decl_list_no_progress ==
    /\ Running("parse_local_decl_list")
    /\ Apply(CASE Top.pc = 0 ->
                    LET q == skip_trivia(pos)
                    IN  IF IsTypeKeyword(TokAt(q)) THEN Call("parse_local_decl_list", 2, q)
                        ELSE Return(q)
               [] Top.pc = 1 -> Call("parse_local_decl_list", 2, pos)
               [] Top.pc = 2 -> Return(pos))

\* LocalDeclList -> (VarDecl)*
parse_local_decl_list ==
    /\ Running("parse_local_decl_list")
    /\ Apply(CASE Top.pc = 0 ->
                    LET q == skip_trivia(pos)
                    IN  IF IsTypeKeyword(TokAt(q)) THEN Call("parse_var_decl", 1, q)
                        ELSE Return(q)
               [] Top.pc = 1 -> Call("parse_local_decl_list", 2, pos)
               [] Top.pc = 2 -> Return(pos))

\* StmtList -> (Stmt)*
parse_stmt_list ==
    /\ Running("parse_stmt_list")
    /\ Apply(CASE Top.pc = 0 ->
                    LET q == skip_trivia(pos)
                        tok == TokAt(q)
                    IN  IF tok = NoTok THEN Return(q)
                        ELSE IF \/ /\ tok # NoTok
                                   /\ tok.type = "KEYWORD"
                                   /\ tok.value \in {"if", "while", "for", "return"}
                                \/ tok.value = "{"
                                \/ tok.type = "IDENTIFIER"
                        THEN Call("parse_stmt", 1, q)
                        ELSE Return(q)
               [] Top.pc = 1 -> Call("parse_stmt_list", 2, pos)
               [] Top.pc = 2 -> Return(pos))

\* Stmt -> ExprStmt | CompoundStmt | IfStmt | WhileStmt | ForStmt | ReturnStmt
parse_stmt ==
    /\ Running("parse_stmt")
    /\ Apply(CASE Top.pc = 0 ->
                    LET q == skip_trivia(pos)
                        tok == TokAt(q)
                    IN  IF tok # NoTok
                        THEN IF tok.value = "{" THEN Call("parse_compound_stmt", 1, q)
                             ELSE IF tok.type = "KEYWORD" /\ tok.value = "if"
                             THEN Call("parse_if_stmt", 1, q)
                             ELSE IF tok.type = "KEYWORD" /\ tok.value = "while"
                             THEN Call("parse_while_stmt", 1, q)
                             ELSE IF tok.type = "KEYWORD" /\ tok.value = "for"
                             THEN Call("parse_for_stmt", 1, q)
                             ELSE IF tok.type = "KEYWORD" /\ tok.value = "return"
                             THEN Call("parse_return_stmt", 1, q)
                             ELSE IF tok.type = "IDENTIFIER"
                             THEN Call("parse_expr_stmt", 1, q)
                             ELSE Raise(q)
                        ELSE Raise(q)
               [] Top.pc = 1 -> Return(pos))

\* ExprStmt -> Expr ';' | ';'
parse_expr_stmt ==
    /\ Running("parse_expr_stmt")
    /\ Apply(CASE Top.pc = 0 ->
                    LET q == skip_trivia(pos)
                        tok == TokAt(q)
                        e == expect(q, Unset, ";")
                    IN  IF tok # NoTok /\ tok.value = ";"
                        THEN AfterExpect(e, Return(e.pos))
                        ELSE Call("parse_expr", 1, q)
               [] Top.pc = 1 ->
                    LET e == expect(pos, Unset, ";")
                    IN  AfterExpect(e, Return(e.pos)))

\* IfStmt -> 'if' '(' Expr ')' Stmt ElsePart
parse_if_stmt ==
    /\ Running("parse_if_stmt")
    /\ Apply(CASE Top.pc = 0 ->
                    LET q == skip_trivia(pos)
                        e1 == expect(q, "KEYWORD", "if")
                        e2 == expect(e1.pos, Unset, "(")
                    IN  IF TokAt(q) = NoTok THEN Raise(q)
                        ELSE AfterExpect(e1, AfterExpect(e2, Call("parse_expr", 1, e2.pos)))
               [] Top.pc = 1 ->
                    LET e == expect(pos, Unset, ")")
                    IN  AfterExpect(e, Call("parse_stmt", 2, e.pos))
               [] Top.pc = 2 -> Call("parse_else_part", 3, pos)
               [] Top.pc = 3 -> Return(pos))

\* ElsePart -> 'else' Stmt | epsilon
parse_else_part ==
    /\ Running("parse_else_part")
    /\ Apply(CASE Top.pc = 0 ->
                    LET q == skip_trivia(pos)
                        tok == TokAt(q)
                        e == expect(q, Unset, "else")
                    IN  IF tok # NoTok /\ tok.type = "KEYWORD" /\ tok.value = "else"
                        THEN AfterExpect(e, Call("parse_stmt", 1, e.pos))
                        ELSE Return(q)
               [] Top.pc = 1 -> Return(pos))

\* WhileStmt -> 'while' '(' Expr ')' Stmt
parse_while_stmt ==
    /\ Running("parse_while_stmt")
    /\ Apply(CASE Top.pc = 0 ->
                    LET q == skip_trivia(pos)
                        e1 == expect(q, "KEYWORD", "while")
                        e2 == expect(e1.pos, Unset, "(")
                    IN  IF TokAt(q) = NoTok THEN Raise(q)
                        ELSE AfterExpect(e1, AfterExpect(e2, Call("parse_expr", 1, e2.pos)))
               [] Top.pc = 1 ->
                    LET e == expect(pos, Unset, ")")
                    IN  AfterExpect(e, Call("parse_stmt", 2, e.pos))
               [] Top.pc = 2 -> Return(pos))

\* ForStmt -> 'for' '(' ExprStmt ExprStmt ExprOpt ')' Stmt
parse_for_stmt ==
    /\ Running("parse_for_stmt")
    /\ Apply(CASE Top.pc = 0 ->
                    LET q == skip_trivia(pos)
                        e1 == expect(q, "KEYWORD", "for")
                        e2 == expect(e1.pos, Unset, "(")
                    IN  IF TokAt(q) = NoTok THEN Raise(q)
                        ELSE AfterExpect(e1, AfterExpect(e2,
                                 Call("parse_expr_stmt", 1, e2.pos)))
               [] Top.pc = 1 -> Call("parse_expr_stmt", 2, pos)
               [] Top.pc = 2 -> Call("parse_expr_opt", 3, pos)
               [] Top.pc = 3 ->
                    LET e == expect(pos, Unset, ")")
                    IN  AfterExpect(e, Call("parse_stmt", 4, e.pos))
               [] Top.pc = 4 -> Return(pos))

\* ReturnStmt -> 'return' ExprOpt ';'
parse_return_stmt ==
    /\ Running("parse_return_stmt")
    /\ Apply(CASE Top.pc = 0 ->
                    LET q == skip_trivia(pos)
                        e == expect(q, "KEYWORD", "return")
                    IN  IF TokAt(q) = NoTok THEN Raise(q)
                        ELSE AfterExpect(e, Call("parse_expr_opt", 1, e.pos))
               [] Top.pc = 1 ->
                    LET e == expect(pos, Unset, ";")
                    IN  AfterExpect(e, Return(e.pos)))

\* ExprOpt -> Expr | epsilon
parse_expr_opt ==
    /\ Running("parse_expr_opt")
    /\ Apply(CASE Top.pc = 0 ->
                    LET q == skip_trivia(pos)
                        tok == TokAt(q)
                    IN  IF tok # NoTok /\ (\/ tok.type = "IDENTIFIER"
                                           \/ tok.type = "NUMERIC_CONSTANT"
                                           \/ tok.value = "(")
                        THEN Call("parse_expr", 1, q)
                        ELSE Return(q)
               [] Top.pc = 1 -> Return(pos))

-----------------------------------------------------------------------------
(* The grammar routines: expressions *)

\* Expr -> AssignExpr
parse_expr ==
    /\ Running("parse_expr")
    /\ Apply(CASE Top.pc = 0 -> Call("parse_assign_expr", 1, pos)
               [] Top.pc = 1 -> Return(pos))

\* a parse_assign_expr that consumes a leading identifier without looking one
\* token further, and restores the cursor to last_pos when no '=' follows
parse_assign_expr_no_lookahead ==
    /\ Running("parse_assign_expr")
    /\ Apply(CASE Top.pc = 0 ->
                    LET q == skip_trivia(pos)
                        tok == TokAt(q)
                        e1 == expect(q, "IDENTIFIER", Unset)
                        last_pos == e1.pos
                        q2 == skip_trivia(last_pos)
                        next_tok == TokAt(q2)
                        e2 == expect(q2, Unset, "=")
                    IN  IF tok # NoTok /\ tok.type = "IDENTIFIER"
                        THEN AfterExpect(e1,
                               IF next_tok # NoTok /\ next_tok.value = "="
                               THEN AfterExpect(e2, Call("parse_assign_expr", 1, e2.pos))
                               ELSE Call("parse_or_expr", 1, last_pos))
                        ELSE Call("parse_or_expr", 1, q)
               [] Top.pc = 1 -> Return(pos))

\* AssignExpr -> ID = AssignExpr | OrExpr
parse_assign_expr ==
    /\ Running("parse_assign_expr")
    /\ Apply(CASE Top.pc = 0 ->
                    LET q == skip_trivia(pos)
                        tok == TokAt(q)
                        e1 == expect(q, "IDENTIFIER", Unset)
                        last_pos == e1.pos
                        q2 == skip_trivia(last_pos)
                        next_tok == TokAt(q2)
                        e2 == expect(q2, Unset, "=")
                    IN  IF /\ tok # NoTok
                           /\ tok.type = "IDENTIFIER"
                           /\ peek(q, 1) # NoTok
                           /\ peek(q, 1).value = "="
                        THEN AfterExpect(e1,
                               IF next_tok # NoTok /\ next_tok.value = "="
                               THEN AfterExpect(e2, Call("parse_assign_expr", 1, e2.pos))
                               ELSE \* self.pos = last_pos
                                    Call("parse_or_expr", 1, last_pos))
                        ELSE Call("parse_or_expr", 1, q)
               [] Top.pc = 1 -> Return(pos))

\* OrExpr -> AndExpr OrExprTail
parse_or_expr ==
    /\ Running("parse_or_expr")
    /\ Apply(CASE Top.pc = 0 -> Call("parse_and_expr", 1, pos)
               [] Top.pc = 1 -> Call("parse_or_expr_tail", 2, pos)
               [] Top.pc = 2 -> Return(pos))

\* OrExprTail -> || AndExpr OrExprTail | epsilon
parse_or_expr_tail ==
    /\ Running("parse_or_expr_tail")
    /\ Apply(CASE Top.pc = 0 ->
                    LET q == skip_trivia(pos)
                        tok == TokAt(q)
                        e == expect(q, Unset, "||")
                    IN  IF tok # NoTok /\ tok.value = "||"
                        THEN AfterExpect(e, Call("parse_and_expr", 1, e.pos))
                        ELSE Return(q)
               [] Top.pc = 1 -> Call("parse_or_expr_tail", 2, pos)
               [] Top.pc = 2 -> Return(pos))

\* AndExpr -> RelExpr AndExprTail
parse_and_expr ==
    /\ Running("parse_and_expr")
    /\ Apply(CASE Top.pc = 0 -> Call("parse_rel_expr", 1, pos)
               [] Top.pc = 1 -> Call("parse_and_expr_tail", 2, pos)
               [] Top.pc = 2 -> Return(pos))

\* AndExprTail -> && RelExpr AndExprTail | epsilon
parse_and_expr_tail ==
    /\ Running("parse_and_expr_tail")
    /\ Apply(CASE Top.pc = 0 ->
                    LET q == skip_trivia(pos)
                        tok == TokAt(q)
                        e == expect(q, Unset, "&&")
                    IN  IF tok # NoTok /\ tok.value = "&&"
                        THEN AfterExpect(e, Call("parse_rel_expr", 1, e.pos))
                        ELSE Return(q)
               [] Top.pc = 1 -> Call("parse_and_expr_tail", 2, pos)
               [] Top.pc = 2 -> Return(pos))

\* RelExpr -> AddExpr RelOpTail
parse_rel_expr ==
    /\ Running("parse_rel_expr")
    /\ Apply(CASE Top.pc = 0 -> Call("parse_add_expr", 1, pos)
               [] Top.pc = 1 -> Call("parse_rel_op_tail", 2, pos)
               [] Top.pc = 2 -> Return(pos))

\* a parse_rel_op_tail that goes on to a further relational operator
parse_rel_op_tail_chained ==
    /\ Running("parse_rel_op_tail")
    /\ Apply(CASE Top.pc = 0 ->
                    LET q == skip_trivia(pos)
                        tok == TokAt(q)
                    IN  IF tok # NoTok /\ tok.value \in {"<", "<=", ">", ">=", "==", "!="}
                        THEN Call("parse_rel_op", 1, q)
                        ELSE Return(q)
               [] Top.pc = 1 -> Call("parse_add_expr", 3, pos)
               [] Top.pc = 3 -> Call("parse_rel_op_tail", 2, pos)
               [] Top.pc = 2 -> Return(pos))

\* RelOpTail -> RelOp AddExpr | epsilon
parse_rel_op_tail ==
    /\ Running("parse_rel_op_tail")
    /\ Apply(CASE Top.pc = 0 ->
                    LET q == skip_trivia(pos)
                        tok == TokAt(q)
                    IN  IF tok # NoTok /\ tok.value \in {"<", "<=", ">", ">=", "==", "!="}
                        THEN Call("parse_rel_op", 1, q)
                        ELSE Return(q)
               [] Top.pc = 1 -> Call("parse_add_expr", 2, pos)
               [] Top.pc = 2 -> Return(pos))

\* RelOp -> '<' | '<=' | '>' | '>=' | '==' | '!='
parse_rel_op ==
    /\ Running("parse_rel_op")
    /\ LET q == skip_trivia(pos)
           tok == TokAt(q)
       IN  Apply(IF tok = NoTok THEN Raise(q)
                 ELSE IF tok.value \in {"<", "<=", ">", ">=", "==", "!="}
                 THEN Return(advance(q))
                 ELSE Raise(q))

\* AddExpr -> Term AddExprTail
parse_add_expr ==
    /\ Running("parse_add_expr")
    /\ Apply(CASE Top.pc = 0 -> Call("parse_term", 1, pos)
               [] Top.pc = 1 -> Call("parse_add_expr_tail", 2, pos)
               [] Top.pc = 2 -> Return(pos))

\* AddExprTail -> + Term AddExprTail | - Term AddExprTail | epsilon
parse_add_expr_tail ==
    /\ Running("parse_add_expr_tail")
    /\ Apply(CASE Top.pc = 0 ->
                    LET q == skip_trivia(pos)
                        tok == TokAt(q)
                    IN  IF tok # NoTok /\ tok.value \in {"+", "-"}
                        THEN Call("parse_term", 1, advance(q))
                        ELSE Return(q)
               [] Top.pc = 1 -> Call("parse_add_expr_tail", 2, pos)
               [] Top.pc = 2 -> Return(pos))

\* Term -> Factor TermTail
parse_term ==
    /\ Running("parse_term")
    /\ Apply(CASE Top.pc = 0 -> Call("parse_factor", 1, pos)
               [] Top.pc = 1 -> Call("parse_term_tail", 2, pos)
               [] Top.pc = 2 -> Return(pos))

\* TermTail -> * Factor TermTail | / Factor TermTail | epsilon
parse_term_tail ==
    /\ Running("parse_term_tail")
    /\ Apply(CASE Top.pc = 0 ->
                    LET q == skip_trivia(pos)
                        tok == TokAt(q)
                    IN  IF tok = NoTok THEN Return(q)
                        ELSE IF tok.value = "*"
                        THEN AfterExpect(expect(q, Unset, "*"), Call("parse_factor", 1, q + 1))
                        ELSE IF tok.value = "/"
                        THEN AfterExpect(expect(q, Unset, "/"), Call("parse_factor", 1, q + 1))
                        ELSE Return(q)
               [] Top.pc = 1 -> Call("parse_term_tail", 2, pos)
               [] Top.pc = 2 -> Return(pos))

\* Factor -> ( Expr ) | ID FactorTail | Literal
parse_factor ==
    /\ Running("parse_factor")
    /\ Apply(CASE Top.pc = 0 ->
                    LET q == skip_trivia(pos)
                        tok == TokAt(q)
                    IN  IF tok = NoTok THEN Raise(q)
                        ELSE IF tok.value = "("
                        THEN AfterExpect(expect(q, Unset, "("), Call("parse_expr", 1, q + 1))
                        ELSE IF tok.type = "IDENTIFIER"
                        THEN AfterExpect(expect(q, "IDENTIFIER", Unset),
                                         Call("parse_factor_tail", 2, q + 1))
                        ELSE IF tok.type = "NUMERIC_CONSTANT"
                        THEN Call("parse_literal", 2, q)
                        ELSE Raise(q)
               [] Top.pc = 1 ->
                    LET e == expect(pos, Unset, ")")
                    IN  AfterExpect(e, Return(e.pos))
               [] Top.pc = 2 -> Return(pos))

\* FactorTail -> ( ArgList ) | epsilon
parse_factor_tail ==
    /\ Running("parse_factor_tail")
    /\ Apply(CASE Top.pc = 0 ->
                    LET q == skip_trivia(pos)
                        tok == TokAt(q)
                    IN  IF tok = NoTok THEN Return(q)
                        ELSE IF tok.value = "("
                        THEN AfterExpect(expect(q, Unset, "("), Call("parse_arg_list", 1, q + 1))
                        ELSE Return(q)
               [] Top.pc = 1 ->
                    LET e == expect(pos, Unset, ")")
                    IN  AfterExpect(e, Return(e.pos)))

\* ArgList -> Expr ArgListTail | epsilon
parse_arg_list ==
    /\ Running("parse_arg_list")
    /\ Apply(CASE Top.pc = 0 ->
                    LET q == skip_trivia(pos)
                        tok == TokAt(q)
                    IN  IF tok = NoTok \/ tok.value = ")" THEN Return(q)
                        ELSE Call("parse_expr", 1, q)
               [] Top.pc = 1 -> Call("parse_arg_list_tail", 2, pos)
               [] Top.pc = 2 -> Return(pos))

\* ArgListTail -> , Expr ArgListTail | epsilon
parse_arg_list_tail ==
    /\ Running("parse_arg_list_tail")
    /\ Apply(CASE Top.pc = 0 ->
                    LET q == skip_trivia(pos)
                        tok == TokAt(q)
                    IN  IF tok = NoTok \/ tok.value = ")" THEN Return(q)
                        ELSE IF tok.value = ","
                        THEN AfterExpect(expect(q, Unset, ","), Call("parse_expr", 1, q + 1))
                        ELSE Raise(q)
               [] Top.pc = 1 -> Call("parse_arg_list_tail", 2, pos)
               [] Top.pc = 2 -> Return(pos))

\* Literal -> INT_CONST | FLOAT_CONST
parse_literal ==
    /\ Running("parse_literal")
    /\ LET q == skip_trivia(pos)
           e == expect(q, "NUMERIC_CONSTANT", Unset)
       IN  Apply(IF TokAt(q) = NoTok THEN Raise(q) ELSE AfterExpect(e, Return(e.pos)))

-----------------------------------------------------------------------------
(* main: the parse of a token list and the verdict printed *)

\* parser.expect_eof() after parse_program returned; "Syntax is correct"
\* unless it raises
MainExpectEof ==
    /\ outcome = "ACCEPT"
    /\ verdict = "none"
    /\ LET q == skip_trivia(pos)
       IN  /\ pos' = q
           /\ verdict' = IF TokAt(q) # NoTok THEN "error" ELSE "correct"
           /\ diags' = IF TokAt(q) # NoTok THEN diags + 1 ELSE diags
    /\ UNCHANGED <<toks, stack, outcome, lexVars, probe>>

\* except ParserError as e: print
MainExcept ==
    /\ outcome = "REJECT"
    /\ verdict = "none"
    /\ verdict' = "error"
    /\ UNCHANGED <<toks, pos, stack, outcome, diags, lexVars, probe>>

NextParse ==
    \/ parse_program \/ parse_decl_list \/ parse_decl \/ parse_var_decl
    \/ parse_var_decl_tail \/ parse_param_list \/ parse_param_list_tail
    \/ parse_type_spec \/ parse_compound_stmt \/ parse_local_decl_list
    \/ parse_stmt_list \/ parse_stmt \/ parse_expr_stmt \/ parse_if_stmt
    \/ parse_else_part \/ parse_while_stmt \/ parse_for_stmt
    \/ parse_return_stmt \/ parse_expr_opt \/ parse_expr \/ parse_assign_expr
    \/ parse_or_expr \/ parse_or_expr_tail \/ parse_and_expr
    \/ parse_and_expr_tail \/ parse_rel_expr \/ parse_rel_op_tail
    \/ parse_rel_op \/ parse_add_expr \/ parse_add_expr_tail \/ parse_term
    \/ parse_term_tail \/ parse_factor \/ parse_factor_tail \/ parse_arg_list
    \/ parse_arg_list_tail \/ parse_literal
    \/ MainExpectEof \/ MainExcept

-----------------------------------------------------------------------------
(* The token lists parsed *)

\* the category tokenize gives a lexeme, the lexeme written as one string
TypeOfValue(v) ==
    CASE v \in {"int", "float", "void", "char", "if", "else", "while", "for", "return"}
           -> "KEYWORD"
      [] v \in {"a", "b"} -> "IDENTIFIER"
      [] v \in {"1"} -> "NUMERIC_CONSTANT"
      [] v \in {"=", "<", "==", "+", "-", "*", "/", "||", "&&", "%"} -> "OPERATOR"
      [] v \in {"(", ")", "{", "}", ";", ","} -> "SPECIAL_CHARACTER"
      [] v \in {" "} -> "WHITESPACE"
      [] v \in {"\n"} -> "NEWLINE"
      [] v \in {"//"} -> "COMMENT"

Tokens(vs) == [i \in 1..Len(vs) |-> [value |-> vs[i], type |-> TypeOfValue(vs[i])]]

MaxBody == 3

\* the lexemes a body is drawn from
BodyValues == {"int", "a", "1", "(", ")", ";", "=", "<", " "}

\* the contexts a body is placed in: what comes before it and after it
Contexts ==
    { [pre |-> <<>>, post |-> <<>>],
      [pre |-> <<"int", "a", ";">>, post |-> <<>>],
      [pre |-> <<"int", "a", "(", ")", "{">>, post |-> <<"}">>],
      [pre |-> <<"int", "a", "(">>, post |-> <<")", "{", "}">>],
      [pre |-> <<"int", "a", "(", "void">>, post |-> <<")", "{", "}">>],
      [pre |-> <<"int", "a", "(", ")", "{", "a", "=", "a", "<">>, post |-> <<";", "}">>],
      [pre |-> <<"int", "a", "(", "void", ")", "{", "a", ";">>, post |-> <<";", "}">>],
      [pre |-> <<"int", "a", "(", ")", "{", "a">>, post |-> <<"a", ";", "}">>] }

MaxTourBody == 1

\* a program that goes through every routine, ending in `return <body> ; }`
Tour ==
    [pre |-> <<"int", "a", ",", "b", ";", "//", "float", "a", "(", "int", "a", ",",
               "void", "b", ")", "{", "if", "(", "a", ")", "{", "}", "else", "\n",
               "while", "(", "a", "||", "a", "&&", "b", "*", "a", "-", "1", ")",
               "for", "(", ";", "a", "==", "a", "(", "a", ",", "1", ")", ";", ")",
               "return">>,
     post |-> <<";", "}">>]

Inputs(n, m) ==
    {Tokens(c.pre \o b \o c.post) : c \in Contexts, b \in SeqsUpTo(BodyValues, n)}
    \cup {Tokens(Tour.pre \o b \o Tour.post) : b \in SeqsUpTo(BodyValues, m)}

\* Parser(tokens), and main about to call parser.parse_program()
InitParseOn(inputs) ==
    /\ toks \in inputs
    /\ pos = 0
    /\ stack = <<Frame("parse_program", 0)>>
    /\ outcome = "running"
    /\ diags = 0
    /\ verdict = "none"
    /\ LexIdle
    /\ probe = <<>>

InitParse == InitParseOn(Inputs(MaxBody, MaxTourBody))

SpecParse == InitParse /\ [][NextParse]_vars

-----------------------------------------------------------------------------
(* The grammar of the specification (its EBNF), as a recognizer: for a       *)
(* nonterminal X, XEnds(w, i) is the set of offsets j such that w[i..j) is   *)
(* derivable from X.  w is a sequence of non-trivia tokens.                  *)

RECURSIVE NonTrivia(_)
NonTrivia(ts) ==
    IF ts = <<>> THEN <<>>
    ELSE IF is_trivia(ts[1]) THEN NonTrivia(Tail(ts))
    ELSE <<ts[1]>> \o NonTrivia(Tail(ts))

Values(ts) == [i \in 1..Len(ts) |-> ts[i].value]

\* the terminal 'v' at offset i
Is(w, i, v) == i < Len(w) /\ w[i + 1].value = v

IsOneOf(w, i, vs) == i < Len(w) /\ w[i + 1].value \in vs

\* ID and NUMBER
IsID(w, i) == i < Len(w) /\ w[i + 1].type = "IDENTIFIER"

IsNUMBER(w, i) == i < Len(w) /\ w[i + 1].type = "NUMERIC_CONSTANT"

\* TypeSpec := 'int' | 'float' | 'void'
IsTypeSpec(w, i) ==
    i < Len(w) /\ w[i + 1].type = "KEYWORD" /\ w[i + 1].value \in {"int", "float", "void"}

\* the offsets after one token 'v' that starts at an offset of E
After(w, E, v) == {e + 1 : e \in {x \in E : Is(w, x, v)}}

RECURSIVE IdTailEnds(_, _), ParamSeqEnds(_, _), ExprEnds(_, _), AssignEnds(_, _),
          OrEnds(_, _), AndEnds(_, _), RelEnds(_, _), AddEnds(_, _), TermEnds(_, _),
          FactorEnds(_, _), ArgSeqEnds(_, _), StmtEnds(_, _), StmtStarEnds(_, _),
          CompoundEnds(_, _), VarDeclStarEnds(_, _), DeclStarEnds(_, _)

\* (',' ID)* ';'
IdTailEnds(w, i) ==
    (IF Is(w, i, ";") THEN {i + 1} ELSE {})
    \cup (IF Is(w, i, ",") /\ IsID(w, i + 1) THEN IdTailEnds(w, i + 2) ELSE {})

\* VarDecl := TypeSpec ID (',' ID)* ';'
VarDeclEnds(w, i) ==
    IF IsTypeSpec(w, i) /\ IsID(w, i + 1) THEN IdTailEnds(w, i + 2) ELSE {}

\* VarDecl*
VarDeclStarEnds(w, i) ==
    {i} \cup UNION {VarDeclStarEnds(w, e) : e \in VarDeclEnds(w, i)}

\* TypeSpec ID (',' TypeSpec ID)*
ParamSeqEnds(w, i) ==
    IF IsTypeSpec(w, i) /\ IsID(w, i + 1)
    THEN {i + 2} \cup (IF Is(w, i + 2, ",") THEN ParamSeqEnds(w, i + 3) ELSE {})
    ELSE {}

\* ParamList := 'void' | epsilon | TypeSpec ID (',' TypeSpec ID)*
ParamListEnds(w, i) ==
    {i} \cup (IF Is(w, i, "void") THEN {i + 1} ELSE {}) \cup ParamSeqEnds(w, i)

\* Expr := AssignExpr
ExprEnds(w, i) == AssignEnds(w, i)

\* AssignExpr := ID '=' AssignExpr | OrExpr
AssignEnds(w, i) ==
    (IF IsID(w, i) /\ Is(w, i + 1, "=") THEN AssignEnds(w, i + 2) ELSE {})
    \cup OrEnds(w, i)

\* OrExpr := AndExpr ('||' AndExpr)*
OrEnds(w, i) ==
    LET E == AndEnds(w, i)
    IN  E \cup UNION {OrEnds(w, e + 1) : e \in {x \in E : Is(w, x, "||")}}

\* AndExpr := RelExpr ('&&' RelExpr)*
AndEnds(w, i) ==
    LET E == RelEnds(w, i)
    IN  E \cup UNION {AndEnds(w, e + 1) : e \in {x \in E : Is(w, x, "&&")}}

\* RelExpr := AddExpr (('<'|'<='|'>'|'>='|'=='|'!=') AddExpr)?
RelEnds(w, i) ==
    LET E == AddEnds(w, i)
    IN  E \cup UNION {AddEnds(w, e + 1) :
                        e \in {x \in E : IsOneOf(w, x, {"<", "<=", ">", ">=", "==", "!="})}}

\* AddExpr := Term (('+'|'-') Term)*
AddEnds(w, i) ==
    LET E == TermEnds(w, i)
    IN  E \cup UNION {AddEnds(w, e + 1) : e \in {x \in E : IsOneOf(w, x, {"+", "-"})}}

\* Term := Factor (('*'|'/') Factor)*
TermEnds(w, i) ==
    LET E == FactorEnds(w, i)
    IN  E \cup UNION {TermEnds(w, e + 1) : e \in {x \in E : IsOneOf(w, x, {"*", "/"})}}

\* Expr (',' Expr)*
ArgSeqEnds(w, i) ==
    LET E == ExprEnds(w, i)
    IN  E \cup UNION {ArgSeqEnds(w, e + 1) : e \in {x \in E : Is(w, x, ",")}}

\* ArgList := (Expr (',' Expr)*)?
ArgListEnds(w, i) == {i} \cup ArgSeqEnds(w, i)

\* Factor := '(' Expr ')' | ID ('(' ArgList ')')? | NUMBER
FactorEnds(w, i) ==
    (IF Is(w, i, "(") THEN After(w, ExprEnds(w, i + 1), ")") ELSE {})
    \cup (IF IsID(w, i)
          THEN {i + 1} \cup (IF Is(w, i + 1, "(")
                             THEN After(w, ArgListEnds(w, i + 2), ")") ELSE {})
          ELSE {})
    \cup (IF IsNUMBER(w, i) THEN {i + 1} ELSE {})

\* Expr?
ExprOptEnds(w, i) == {i} \cup ExprEnds(w, i)

\* ExprStmt := Expr? ';'
ExprStmtEnds(w, i) == After(w, ExprOptEnds(w, i), ";")

\* '(' Expr ')' after a keyword at offset i
ParenExprEnds(w, i) ==
    IF Is(w, i + 1, "(") THEN After(w, ExprEnds(w, i + 2), ")") ELSE {}

\* IfStmt := 'if' '(' Expr ')' Stmt ('else' Stmt)?
IfStmtEnds(w, i) ==
    IF Is(w, i, "if")
    THEN LET E == UNION {StmtEnds(w, e) : e \in ParenExprEnds(w, i)}
         IN  E \cup UNION {StmtEnds(w, e) : e \in After(w, E, "else")}
    ELSE {}

\* WhileStmt := 'while' '(' Expr ')' Stmt
WhileStmtEnds(w, i) ==
    IF Is(w, i, "while") THEN UNION {StmtEnds(w, e) : e \in ParenExprEnds(w, i)} ELSE {}

\* ForStmt := 'for' '(' ExprStmt ExprStmt Expr? ')' Stmt
ForStmtEnds(w, i) ==
    IF Is(w, i, "for") /\ Is(w, i + 1, "(")
    THEN LET E1 == ExprStmtEnds(w, i + 2)
             E2 == UNION {ExprStmtEnds(w, e) : e \in E1}
             E3 == UNION {ExprOptEnds(w, e) : e \in E2}
         IN  UNION {StmtEnds(w, e) : e \in After(w, E3, ")")}
    ELSE {}

\* ReturnStmt := 'return' Expr? ';'
ReturnStmtEnds(w, i) ==
    IF Is(w, i, "return") THEN After(w, ExprOptEnds(w, i + 1), ";") ELSE {}

\* Stmt := CompoundStmt | IfStmt | WhileStmt | ForStmt | ReturnStmt | ExprStmt
StmtEnds(w, i) ==
    CompoundEnds(w, i) \cup IfStmtEnds(w, i) \cup WhileStmtEnds(w, i)
    \cup ForStmtEnds(w, i) \cup ReturnStmtEnds(w, i) \cup ExprStmtEnds(w, i)

\* Stmt*
StmtStarEnds(w, i) ==
    {i} \cup UNION {StmtStarEnds(w, e) : e \in StmtEnds(w, i)}

\* CompoundStmt := '{' VarDecl* Stmt* '}'
CompoundEnds(w, i) ==
    IF Is(w, i, "{")
    THEN After(w, UNION {StmtStarEnds(w, d) : d \in VarDeclStarEnds(w, i + 1)}, "}")
    ELSE {}

\* Decl := TypeSpec ID ( '(' ParamList ')' CompoundStmt | (',' ID)* ';' )
DeclEnds(w, i) ==
    IF IsTypeSpec(w, i) /\ IsID(w, i + 1)
    THEN (IF Is(w, i + 2, "(")
          THEN UNION {CompoundEnds(w, e) : e \in After(w, ParamListEnds(w, i + 3), ")")}
          ELSE {})
         \cup IdTailEnds(w, i + 2)
    ELSE {}

\* Decl*
DeclStarEnds(w, i) ==
    {i} \cup UNION {DeclStarEnds(w, e) : e \in DeclEnds(w, i)}

\* Program := Decl* EOF
Derivable(w) == Len(w) \in DeclStarEnds(w, 0)

-----------------------------------------------------------------------------
(* Claims about the parser, checked under SpecParse *)

\* C3 (completeness), for programs of at least one token: a token list whose
\* non-trivia tokens are derivable from Program in the EBNF is parsed without
\* a ParserError, also when a statement starts with ';', a NUMBER or '(' and
\* when a parameter has the type 'void'.  (The program of no declaration is
\* the subject of C8.)
C3_DerivableIsAccepted ==
    (outcome = "REJECT" /\ NonTrivia(toks) # <<>>) => ~Derivable(NonTrivia(toks))

\* C4 (soundness): a token list whose non-trivia tokens are not derivable from
\* Program in the EBNF ends in ParserError: whatever parse_program accepts is
\* a sentence of the grammar.
C4_AcceptedIsDerivable ==
    outcome = "ACCEPT" => Derivable(NonTrivia(toks))

\* parse_program rejected `int a ( ) { a = a < a < a ; }`, which holds two
\* relational operators in one RelExpr and is not derivable
C4_Witness ==
    /\ outcome = "REJECT"
    /\ Values(NonTrivia(toks)) =
         <<"int", "a", "(", ")", "{", "a", "=", "a", "<", "a", "<", "a", ";", "}">>
    /\ ~Derivable(NonTrivia(toks))

\* C7: parse_program returns normally only with every token consumed: the
\* cursor is len(tokens), so no non-trivia token is left; with a non-trivia
\* token left after the declarations the outcome is ParserError, and main
\* prints "Syntax is correct" only after such a return.
C7_AcceptOnlyAtEnd ==
    /\ outcome = "ACCEPT" => pos = Len(toks)
    /\ (outcome \in {"ACCEPT", "REJECT"}
        /\ \E i \in (pos + 1)..Len(toks) : ~is_trivia(toks[i])) => outcome = "REJECT"
    /\ verdict = "correct" => (outcome = "ACCEPT" /\ pos = Len(toks) /\ diags = 0)

\* parse_program returned normally on a list that ends in trivia, the cursor
\* past it
C7_Witness ==
    /\ outcome = "ACCEPT"
    /\ toks # <<>>
    /\ is_trivia(toks[Len(toks)])
    /\ pos = Len(toks)

\* C8: the parse of a token list with no non-trivia token (the empty list, or
\* comments, blanks and newlines only) ends in ParserError.
C8_EmptyProgramRejected ==
    (NonTrivia(toks) = <<>> /\ outcome # "running") => outcome = "REJECT"

\* a list of trivia tokens only was rejected
C8_Witness ==
    /\ outcome = "REJECT"
    /\ toks # <<>>
    /\ NonTrivia(toks) = <<>>

-----------------------------------------------------------------------------
(* The cursor primitives called on their own: any sequence of peek(n) and    *)
(* advance() on a parser at cursor 0; probe keeps the last two calls         *)

MaxPeekLen == 4

MaxPeekAhead == 2

\* the lexemes of these token lists: an identifier, '=', a blank and a comment
PeekValues == {"a", "=", " ", "//"}

InitPeek ==
    /\ toks \in {Tokens(vs) : vs \in SeqsUpTo(PeekValues, MaxPeekLen)}
    /\ pos = 0
    /\ stack = <<>>
    /\ outcome = "idle"
    /\ diags = 0
    /\ verdict = "none"
    /\ LexIdle
    /\ probe = <<>>

\* the index of the token returned, -1 for None
Returned(idx) == IF idx < Len(toks) THEN idx ELSE -1

LastCall == IF probe = <<>> THEN <<>> ELSE <<probe[Len(probe)]>>

\* tok = self.peek(n)
PeekCall ==
    /\ outcome = "idle"
    /\ \E n \in 0..MaxPeekAhead :
          probe' = LastCall \o <<[op |-> "peek", n |-> n, from |-> pos,
                                  idx |-> Returned(PeekIdx(pos, n)),
                                  to |-> skip_trivia(pos)]>>
    /\ pos' = skip_trivia(pos)
    /\ UNCHANGED <<toks, stack, outcome, diags, verdict, lexVars>>

\* tok = self.advance()
AdvanceCall ==
    /\ outcome = "idle"
    /\ probe' = LastCall \o <<[op |-> "advance", n |-> 0, from |-> pos,
                               idx |-> Returned(PeekIdx(pos, 0)),
                               to |-> advance(pos)]>>
    /\ pos' = advance(pos)
    /\ UNCHANGED <<toks, stack, outcome, diags, verdict, lexVars>>

NextPeek == PeekCall \/ AdvanceCall

SpecPeek == InitPeek /\ [][NextPeek]_vars

\* the indexes of the non-trivia tokens at or after cursor p
NonTriviaFrom(p) == {i \in p..(Len(toks) - 1) : ~is_trivia(toks[i + 1])}

\* the index of the (n+1)-th non-trivia token at or after cursor p, -1 if there is none
NthNonTrivia(p, n) ==
    LET S == NonTriviaFrom(p)
    IN  IF Cardinality(S) > n
        THEN CHOOSE i \in S : Cardinality({j \in S : j < i}) = n
        ELSE -1

\* C9: peek(n) returns the (n+1)-th non-trivia token at or after the cursor,
\* None when there are fewer, and moves the cursor over leading trivia only;
\* an advance() that follows returns peek(0) and leaves the cursor just past
\* that token.
C9_PeekAndAdvance ==
    /\ \A k \in 1..Len(probe) :
          LET c == probe[k]
          IN  /\ c.idx = NthNonTrivia(c.from, c.n)
              /\ c.op = "peek" =>
                    /\ c.from <= c.to
                    /\ \A i \in c.from..(c.to - 1) : is_trivia(toks[i + 1])
              /\ c.op = "advance" =>
                    c.to = IF c.idx = -1 THEN Len(toks) ELSE c.idx + 1
    /\ (Len(probe) = 2 /\ probe[1].op = "peek" /\ probe[2].op = "advance") =>
          /\ probe[2].idx = NthNonTrivia(probe[1].from, 0)
          /\ probe[2].idx # -1 => pos = probe[2].idx + 1

\* peek(1) looked over trivia on both sides of a token and returned the token
\* after it, and the advance() that followed returned the token peek(0) names
C9_Witness ==
    /\ Len(probe) = 2
    /\ probe[1].op = "peek" /\ probe[1].n = 1
    /\ probe[1].to > probe[1].from
    /\ probe[1].idx > probe[1].to + 1
    /\ probe[2].op = "advance"
    /\ probe[2].idx = probe[1].to

-----------------------------------------------------------------------------
(* Termination of the parse, checked under SpecParseLive: the interpreter    *)
(* runs the routine on top of the stack until the parse ends                 *)

MaxLiveBody == 2

InitParseLive == InitParseOn(Inputs(MaxLiveBody, 0))

SpecParseLive == InitParseLive /\ [][NextParse]_vars /\ WF_vars(NextParse)

\* the number of non-trivia tokens before cursor p
NonTriviaBefore(p) == Cardinality({i \in 1..p : ~is_trivia(toks[i])})

\* a routine that is called while it is active was called at a cursor with
\* more non-trivia tokens behind it
RecursionConsumes ==
    \A i, j \in 1..Len(stack) :
        (i < j /\ stack[i].r = stack[j].r) =>
            NonTriviaBefore(stack[i].ent) < NonTriviaBefore(stack[j].ent)

OneOutcome ==
    /\ outcome \in {"running", "ACCEPT", "REJECT"}
    /\ diags <= 1
    /\ outcome = "running" => (diags = 0 /\ stack # <<>>)
    /\ outcome = "ACCEPT" => (diags = 0 /\ stack = <<>>)
    /\ outcome = "REJECT" => (diags = 1 /\ stack = <<>>)

-----------------------------------------------------------------------------
(* Assignment disambiguation in parse_assign_expr *)

\* the first non-trivia token at or after p is an IDENTIFIER and the next
\* non-trivia token is '='
StartsAssignment(p) ==
    LET id == NthNonTrivia(p, 0)
        nx == NthNonTrivia(p, 1)
    IN  /\ id # -1 /\ toks[id + 1].type = "IDENTIFIER"
        /\ nx # -1 /\ toks[nx + 1].value = "="

\* the first non-trivia token at or after p is an IDENTIFIER with no '=' after it
StartsPlainIdentifier(p) ==
    LET id == NthNonTrivia(p, 0)
    IN  id # -1 /\ toks[id + 1].type = "IDENTIFIER" /\ ~StartsAssignment(p)

\* what every parse_assign_expr that has made its call has called, and where
AssignBranch ==
    \A i \in 1..(Len(stack) - 1) :
        stack[i].r = "parse_assign_expr" =>
            LET e == stack[i].ent
                child == stack[i + 1]
            IN  IF StartsAssignment(e)
                THEN /\ child.r = "parse_assign_expr"
                     /\ child.ent = NthNonTrivia(e, 1) + 1
                ELSE /\ child.r = "parse_or_expr"
                     /\ child.ent >= e
                     /\ NonTriviaBefore(child.ent) = NonTriviaBefore(e)

\* the step that takes the cursor over the identifier an OrExpr was entered at
\* is parse_factor's, and it does not raise
IdentifierGoesToFactor ==
    \A i \in 1..Len(stack) :
        (/\ stack[i].r = "parse_assign_expr"
         /\ StartsPlainIdentifier(stack[i].ent)
         /\ pos <= NthNonTrivia(stack[i].ent, 0)
         /\ pos' > NthNonTrivia(stack[i].ent, 0))
        => (Top.r = "parse_factor" /\ Top.pc = 0 /\ outcome' = "running"
            /\ pos' = NthNonTrivia(stack[i].ent, 0) + 1)

\* C11: parse_assign_expr on IDENTIFIER '=' (trivia between them ignored)
\* consumes both and recurses into parse_assign_expr; otherwise it enters
\* parse_or_expr with no non-trivia token consumed, and a leading identifier is
\* then consumed by parse_factor.
C11_AssignDisambiguation ==
    /\ []AssignBranch
    /\ [][IdentifierGoesToFactor]_vars

\* `a = a`, with trivia before the '=' of the outer assignment: the inner
\* parse_assign_expr has entered parse_or_expr and parse_factor has consumed its
\* identifier
C11_Witness ==
    \E i \in 1..(Len(stack) - 2) :
        /\ stack[i].r = "parse_assign_expr"
        /\ StartsAssignment(stack[i].ent)
        /\ NthNonTrivia(stack[i].ent, 1) > NthNonTrivia(stack[i].ent, 0) + 1
        /\ stack[i + 1].r = "parse_assign_expr"
        /\ StartsPlainIdentifier(stack[i + 1].ent)
        /\ stack[i + 2].r = "parse_or_expr"
        /\ pos = NthNonTrivia(stack[i + 1].ent, 0) + 1
        /\ Top.r = "parse_factor_tail"

-----------------------------------------------------------------------------
(* The cursor *)

CursorInRange == pos \in 0..Len(toks)

\* _skip_trivia, advance and expect, called at the cursor, leave it at or after
\* where it was and inside the token list
HelpersMoveForward ==
    /\ skip_trivia(pos) \in pos..Len(toks)
    /\ advance(pos) \in pos..Len(toks)
    /\ \A type_ \in {Unset, "IDENTIFIER", "KEYWORD"}, lexeme \in {Unset, "=", ";"} :
           expect(pos, type_, lexeme).pos \in pos..Len(toks)

\* last_pos of parse_assign_expr, the only value the cursor is ever restored
\* to, is not before the leading identifier of the assignment attempt
RestoreIsBounded ==
    (/\ outcome = "running" /\ stack # <<>>
     /\ Top.r = "parse_assign_expr" /\ Top.pc = 0
     /\ StartsAssignment(pos))
    => LET last_pos == expect(pos, "IDENTIFIER", Unset).pos
       IN  /\ last_pos = NthNonTrivia(pos, 0) + 1
           /\ last_pos >= pos
           /\ last_pos <= skip_trivia(last_pos)

\* C12: the cursor stays within 0..len(tokens) and no step of the parse moves
\* it back; the value parse_assign_expr would restore it to is never before
\* the leading identifier of that assignment attempt.
C12_CursorMonotone ==
    /\ [](CursorInRange /\ HelpersMoveForward /\ RestoreIsBounded)
    /\ [][pos' >= pos]_vars

\* a parse that went through an assignment and over trivia has brought the
\* cursor to the end of the token list
C12_Witness ==
    /\ outcome = "ACCEPT"
    /\ pos = Len(toks)
    /\ \E i, j \in 1..Len(toks) :
          /\ i < j
          /\ toks[i].type = "IDENTIFIER"
          /\ is_trivia(toks[j])
          /\ NthNonTrivia(i, 0) > j /\ toks[NthNonTrivia(i, 0) + 1].value = "="

-----------------------------------------------------------------------------
(* The final else branch of the classification chain *)

\* the lexeme satisfies one of the nine Scanner predicates of the chain
SatisfiesSome(lexeme) ==
    \E i \in 1..Len(NewlineFirstOrder) : Satisfies(NewlineFirstOrder[i], lexeme)

\* C13: the final else branch of the chain is unreachable: every token that
\* tokenize emits, a character literal around a newline included, satisfies at
\* least one Scanner predicate.
C13_FallbackUnreachable ==
    \A i \in 1..Len(lexOut) : SatisfiesSome(lexOut[i].value)

-----------------------------------------------------------------------------
(* Trivia transparency: a token list and the same list without its trivia *)

MaxPairBody == 2

\* the token list with its COMMENT, WHITESPACE and NEWLINE tokens removed
WithoutTrivia(ts) ==
    SelectSeq(ts, LAMBDA t : t.type \notin {"COMMENT", "WHITESPACE", "NEWLINE"})

InitParsePair == InitParseOn(Inputs(MaxPairBody, 0))

\* main has printed its verdict on the token list; a new Parser is built on
\* the list without its trivia and main is about to call parse_program on it
ParseWithoutTrivia ==
    /\ verdict # "none"
    /\ probe = <<>>
    /\ probe' = <<[toks |-> toks, outcome |-> outcome, verdict |-> verdict]>>
    /\ toks' = WithoutTrivia(toks)
    /\ pos' = 0
    /\ stack' = <<Frame("parse_program", 0)>>
    /\ outcome' = "running"
    /\ diags' = 0
    /\ verdict' = "none"
    /\ UNCHANGED lexVars

NextPair == NextParse \/ ParseWithoutTrivia

SpecPair == InitParsePair /\ [][NextPair]_vars

\* the second parse has ended and main has printed its verdict
BothParsed == probe # <<>> /\ verdict # "none"

\* C14: a token list and the list without its trivia get the same outcome of
\* parse_program and the same verdict of main, so any two lists with the same
\* non-trivia subsequence do; and no step of a parse changes the token list.
C14_TriviaTransparent ==
    /\ [](BothParsed => (outcome = probe[1].outcome /\ verdict = probe[1].verdict))
    /\ [][probe' = probe => toks' = toks]_vars

\* both parses accepted a program that has trivia between an identifier and
\* the '=' after it
C14_Witness ==
    /\ BothParsed
    /\ verdict = "correct"
    /\ probe[1].verdict = "correct"
    /\ Len(toks) < Len(probe[1].toks)
    /\ \E i \in 1..(Len(probe[1].toks) - 2) :
          /\ probe[1].toks[i].type = "IDENTIFIER"
          /\ probe[1].toks[i + 1].type = "WHITESPACE"
          /\ probe[1].toks[i + 2].value = "="

====
